---- MODULE Spec2Model ----
(***************************************************************************)
(* Model of the boson providers of seerai/boson-remote-providers:          *)
(*   - the page assembler  NASSQuickStats.make_request  (with its fetch   *)
(*     helper _make_request and the TTL cache in front of it),            *)
(*   - the query planner  create_query_list  of both NASS providers,      *)
(*   - search and make_request of NASSQuickStatsRemoteProvider, with the  *)
(*     plan and the counties kept on the provider instance, and           *)
(*   - search, update_facets and update_states of the EIA providers       *)
(*     (EIAGenerators, EIAElectricity).                                    *)
(* Indexes, offsets and resource indexes are 0-based as in the Python     *)
(* source; TLA+ sequences are 1-based, so plan entry k is backend[k + 1]. *)
(***************************************************************************)
EXTENDS Integers, Sequences, FiniteSets, TLC

VARIABLES
    backend,      \* per plan index: the HTTP response the API gives for that sub-query
    cache,        \* the TTLCache of _make_request: plan index -> cached DataFrame
    pagination,   \* the cursor the caller holds and passes to the next call
    last,         \* the last make_request call: input cursor, outcome, page, next cursor
    acc,          \* concatenation of all pages returned so far
    calls,        \* number of make_request calls made so far
    fromFresh,    \* TRUE iff the sequence of calls started from the fresh cursor
    uncached,     \* the last call as it comes out when every sub-query is fetched anew
    wire,         \* the token string that travels between the provider and the caller
    planIn,       \* the search parameters handed to create_query_list
    planOut,      \* what create_query_list gave: the provider, the outcome, the plan
    planAgain,    \* what a second create_query_list call with the same parameters gave
    boundaries,   \* states.df and counties.df, the tables of the two Boundaries objects
    selfCountiesGdf,   \* NASSQuickStatsRemoteProvider.counties_gdf: <<>> unset, <<rows>> set
    countiesHasAplha,  \* whether the counties table has a column named "state_aplha"
    selfQueryList,     \* NASSQuickStatsRemoteProvider.query_list: <<>> unset, <<plan>> set
    remoteCache,       \* the TTLCache of NASSQuickStatsRemoteProvider.make_request
    reqs,              \* the search requests in progress on the remote provider instance
    eiaReq,            \* the parameters of the searches made to an EIA provider
    eiaBackend,        \* what the EIA API holds for the request: its total, or an error
    eiaToken,          \* the pagination the caller passes to the next EIA search
    eiaLast,           \* the outcome of the last EIA search
    eiaAcc,            \* concatenation of the pages the EIA searches returned
    eiaCount,          \* the outcome of the count_only search
    eiaCalls,          \* number of EIA page searches made so far
    eiaFresh           \* TRUE iff the first EIA search came without pagination

pagingVars ==
    <<backend, cache, pagination, last, acc, calls, fromFresh, uncached, wire>>

planVars ==
    <<planIn, planOut, planAgain, boundaries, selfCountiesGdf, countiesHasAplha>>

remoteVars == <<selfQueryList, remoteCache, reqs>>

eiaVars ==
    <<eiaReq, eiaBackend, eiaToken, eiaLast, eiaAcc, eiaCount, eiaCalls, eiaFresh>>

vars == <<pagingVars, planVars, remoteVars, eiaVars>>

----------------------------------------------------------------------------
(* Bounds of the model *)

MaxPlanLen == 2     \* sub-queries in a generated plan
MaxRows == 2        \* rows in one backend response
MaxPageSize == 2    \* page sizes 1..MaxPageSize
MaxCalls == 3       \* calls in one resumed sequence
MaxYears == 2       \* distinct years a datetime range is drawn from
MaxTotal == 3       \* rows the EIA API holds for one request
MaxLen == 3         \* pieces in the value of a filter key

----------------------------------------------------------------------------
(* Helpers *)

Min(a, b) == IF a <= b THEN a ELSE b

\* Python's s[a:b] for 0 <= a: positions a .. b-1, clipped to the length of s.
Slice(s, a, b) ==
    LET hi == Min(b, Len(s))
    IN  IF a >= hi THEN <<>> ELSE SubSeq(s, a + 1, hi)

IsPrefix(s, t) == Len(s) <= Len(t) /\ s = SubSeq(t, 1, Len(s))

RECURSIVE Concat(_)
Concat(ss) == IF ss = <<>> THEN <<>> ELSE Head(ss) \o Concat(Tail(ss))

----------------------------------------------------------------------------
(* The counties and the backend *)

\* County codes that occur in backend rows.
CountyCodes == {"c1", "c2"}

\* counties_gdf: the counties that intersect the request's geometry.
CountiesGdf == {"c1"}

\* A backend response: HTTP status, whether the JSON body is an object with a
\* "data" list or an empty body, and the county code of each row of "data".
RowSeqs == UNION {[1..n -> CountyCodes] : n \in 0..MaxRows}

Ok(data) == [status |-> 200, body |-> "data", data |-> data]

Responses ==
    {Ok(d) : d \in RowSeqs}
        \cup {[status |-> 500, body |-> "data", data |-> <<>>],
              [status |-> 200, body |-> "empty", data |-> <<>>]}

\* pd.DataFrame(res["data"]) for sub-query k: one row per element, tagged with
\* the sub-query and its position; a DataFrame built from no rows has no
\* columns.
DataFrame(k, data) ==
    [columns |-> data # <<>>,
     rows |-> [i \in 1..Len(data) |-> [q |-> k, i |-> i - 1, county |-> data[i]]]]

\* pd.DataFrame()
EmptyDataFrame == [columns |-> FALSE, rows |-> <<>>]

----------------------------------------------------------------------------
(* The pagination cursor (boson.Pagination) *)

Cursor(o, p, r) == [offset |-> o, pageSize |-> p, resourceIndex |-> r]

\* The cursor of a request that carries no token.
Fresh(p) == Cursor(0, p, 0)

\* pagination.get_next_token(offset=..., resource_index=...)
get_next_token(p, o, r) == Cursor(o, p.pageSize, r)

\* The wrong unpacking order: page size and offset exchanged.
get_current_swapped(p) == <<p.pageSize, p.offset, p.resourceIndex>>

\* offset, page_size, resource_index = pagination.get_current()
get_current(p) == <<p.offset, p.pageSize, p.resourceIndex>>

----------------------------------------------------------------------------
(* NASSQuickStats._make_request behind @cached(TTLCache) *)

\* The result of a fetch: raised, or a DataFrame; the cache afterwards; and
\* whether the backend was asked.
_make_request(c, k, resp) ==
    IF k \in DOMAIN c
    THEN [raised |-> FALSE, df |-> c[k], cache |-> c, asked |-> FALSE]
    ELSE IF resp.status = 200
         THEN IF resp.body = "empty"
              \* `if not res: df = pd.DataFrame()` falls through to res["data"]
              THEN [raised |-> TRUE, df |-> EmptyDataFrame, cache |-> c, asked |-> TRUE]
              ELSE LET df == DataFrame(k, resp.data)
                   IN  [raised |-> FALSE, df |-> df, cache |-> (k :> df) @@ c,
                        asked |-> TRUE]
         ELSE [raised |-> FALSE, df |-> EmptyDataFrame,
               cache |-> (k :> EmptyDataFrame) @@ c, asked |-> TRUE]

\* pd.merge(df, counties_gdf, ..., how="inner"): the rows whose county is one
\* of counties_gdf, in the order of df.  (Only called on a df with columns.)
Merge(df, counties_gdf) == SelectSeq(df.rows, LAMBDA r : r.county \in counties_gdf)

----------------------------------------------------------------------------
(* NASSQuickStats.make_request *)

\* if resource_index > len(query_list): the off-by-one end test.
AtEndStrict(resource_index, n) == resource_index > n

\* if resource_index >= len(query_list)
AtEnd(resource_index, n) == resource_index >= n

\* The end index counted from the start of the frame, not from the offset.
EndIndexFromZero(offset, n, page_size, have) == Min(n, page_size - have)

\* end_index = offset + min(len(gdf), page_size - len(results_gdf))
EndIndex(offset, n, page_size, have) == offset + Min(n, page_size - have)

\* The for loop over range(resource_index, len(query_list)): i is the next
\* value of the range, resource_index the value the loop variable holds.
RECURSIVE Loop(_, _, _, _, _, _, _, _, _)
Loop(query_list, page_size, i, resource_index, offset, results_gdf, c, fetched, asked) ==
    IF i >= Len(query_list)
    THEN [raised |-> FALSE, rows |-> results_gdf, offset |-> offset,
          resource_index |-> resource_index, cache |-> c, fetched |-> fetched,
          asked |-> asked]
    ELSE
      LET f == _make_request(c, i, query_list[i + 1])
          fetched2 == Append(fetched, i)
          asked2 == IF f.asked THEN Append(asked, i) ELSE asked
      IN
      IF f.raised \/ ~f.df.columns
      \* KeyError from res["data"], or from pd.merge on a frame without the
      \* key columns
      THEN [raised |-> TRUE, rows |-> <<>>, offset |-> offset,
            resource_index |-> i, cache |-> f.cache, fetched |-> fetched2,
            asked |-> asked2]
      ELSE
        LET gdf == Merge(f.df, CountiesGdf)
            end_index == EndIndex(offset, Len(gdf), page_size, Len(results_gdf))
            temp == results_gdf \o Slice(gdf, offset, end_index)
        IN
        IF Len(temp) >= page_size
        THEN [raised |-> FALSE, rows |-> Slice(temp, 0, page_size),
              offset |-> end_index, resource_index |-> i, cache |-> f.cache,
              fetched |-> fetched2, asked |-> asked2]
        ELSE Loop(query_list, page_size, i + 1, i, end_index, temp, f.cache,
                  fetched2, asked2)

\* The outcome of one call: status "ok" with the page and the next cursor
\* (<<>> is the empty dict {}, <<c>> the token c), or status "error".
make_request(p, query_list, c) ==
    LET cur == get_current(p)
        offset == cur[1]
        page_size == cur[2]
        resource_index == cur[3]
    IN
    IF AtEnd(resource_index, Len(query_list))
    THEN [in |-> p, status |-> "ok", rows |-> <<>>, next |-> <<>>,
          fetched |-> <<>>, asked |-> <<>>, cache |-> c]
    ELSE
      LET l == Loop(query_list, page_size, resource_index, resource_index,
                    offset, <<>>, c, <<>>, <<>>)
      IN
      IF l.raised
      THEN [in |-> p, status |-> "error", rows |-> <<>>, next |-> <<>>,
            fetched |-> l.fetched, asked |-> l.asked, cache |-> l.cache]
      ELSE [in |-> p, status |-> "ok", rows |-> l.rows,
            next |-> <<get_next_token(p, l.offset, l.resource_index)>>,
            fetched |-> l.fetched, asked |-> l.asked, cache |-> l.cache]

----------------------------------------------------------------------------
(* The boundary tables and the search parameters *)

\* states.df and counties.df in load order.
StatesDf ==
    <<[STATEFP |-> "01", NAME |-> "Alabama", STUSPS |-> "AL"],
      [STATEFP |-> "02", NAME |-> "Alaska", STUSPS |-> "AK"],
      [STATEFP |-> "04", NAME |-> "Arizona", STUSPS |-> "AZ"]>>

CountiesDf ==
    <<[COUNTYNS |-> 2, NAME |-> "Autauga", STATEFP |-> "01", state_aplha |-> "al"],
      [COUNTYNS |-> 1, NAME |-> "Juneau", STATEFP |-> "02", state_aplha |-> "ak"]>>

\* A geometry is known by the rows of the two tables it intersects; a
\* geometry that intersects a county intersects the county's state.
Geoms ==
    {g \in [states : SUBSET {StatesDf[j].STATEFP : j \in 1..Len(StatesDf)},
            counties : SUBSET {CountiesDf[j].COUNTYNS : j \in 1..Len(CountiesDf)}] :
        \A j \in 1..Len(CountiesDf) :
            CountiesDf[j].COUNTYNS \in g.counties => CountiesDf[j].STATEFP \in g.states}

\* geometry.box(-179.9, 18.0, -66.9, 71.4)
UsBox ==
    [states |-> {StatesDf[j].STATEFP : j \in 1..Len(StatesDf)},
     counties |-> {CountiesDf[j].COUNTYNS : j \in 1..Len(CountiesDf)}]

\* The selected rows of df, last row first.
RECURSIVE LocLastFirst(_, _)
LocLastFirst(df, idx) ==
    IF df = <<>> THEN <<>>
    ELSE LocLastFirst(Tail(df), Tail(idx)) \o (IF Head(idx) THEN <<Head(df)>> ELSE <<>>)

\* self.df.copy().loc[idx]: the rows of df whose entry of the mask idx is
\* TRUE, in the order of df.
RECURSIVE Loc(_, _)
Loc(df, idx) ==
    IF df = <<>> THEN <<>>
    ELSE (IF Head(idx) THEN <<Head(df)>> ELSE <<>>) \o Loc(Tail(df), Tail(idx))

\* states.intersects(geom) and counties.intersects(geom)
StatesIntersects(geom) ==
    Loc(StatesDf, [j \in 1..Len(StatesDf) |-> StatesDf[j].STATEFP \in geom.states])

CountiesIntersects(geom) ==
    Loc(CountiesDf, [j \in 1..Len(CountiesDf) |-> CountiesDf[j].COUNTYNS \in geom.counties])

----------------------------------------------------------------------------
(* The frames of the boundary tables as objects *)

\* A frame is its index (the default range index, or the column that
\* set_index made the index) and its rows.  The frames of a request live in
\* a heap: a sequence of frames, a frame being known by its position.
\* Positions 1 and 2 hold states.df and counties.df.
Frame(rows) == [index |-> "range", rows |-> rows]

\* gpd.read_parquet(STATE_PATH) and gpd.read_parquet(COUNTIES_PATH)
LoadedBoundaries == [states |-> Frame(StatesDf), counties |-> Frame(CountiesDf)]

StatesObj == 1

CountiesObj == 2

\* idx = self.df.intersects(geom): one entry per row of the table as it is.
StatesMask(frame, geom) ==
    [j \in 1..Len(frame.rows) |-> frame.rows[j].STATEFP \in geom.states]

CountiesMask(frame, geom) ==
    [j \in 1..Len(frame.rows) |-> frame.rows[j].COUNTYNS \in geom.counties]

\* The selection made on the table itself: the table keeps the selected rows
\* and is handed out.
BoundariesIntersectsInPlace(heap, table, idx) ==
    [heap |-> [heap EXCEPT ![table].rows = Loc(@, idx)], obj |-> table]

\* Boundaries.intersects: self.df.copy() is a new frame with the rows of the
\* table, and .loc[idx] with a boolean mask is a new frame again.
BoundariesIntersects(heap, table, idx) ==
    LET copied == Append(heap, heap[table])
        selected == Append(copied, Frame(Loc(copied[Len(copied)].rows, idx)))
    IN  [heap |-> selected, obj |-> Len(selected)]

\* str.strip() on the state codes of the tables.
StripCode(str) ==
    CASE str = " 01" -> "01"
      [] str = "01 " -> "01"
      [] str = " 02" -> "02"
      [] str = "02 " -> "02"
      [] str = " 04" -> "04"
      [] str = "04 " -> "04"
      [] OTHER -> str

\* df["STATEFP"] = df["STATEFP"].str.strip(): the column of the frame obj is
\* replaced in the frame itself.
StripStatefp(heap, obj) ==
    [heap EXCEPT ![obj].rows =
        [j \in 1..Len(@) |-> [@[j] EXCEPT !.STATEFP = StripCode(@)]]]

\* df.set_index("STATEFP", inplace=True)
SetIndexInPlace(heap, obj, col) == [heap EXCEPT ![obj].index = col]

\* states_df[["STATEFP", "NAME"]]: a new frame of the two columns.
SelectStatefpName(heap, obj) ==
    LET rows == heap[obj].rows
        out == Append(heap, Frame([j \in 1..Len(rows) |->
                                      [STATEFP |-> rows[j].STATEFP,
                                       NAME |-> rows[j].NAME]]))
    IN  [heap |-> out, obj |-> Len(out)]

\* The two tables after get_counties_from_geometry and get_states_from_geometry
\* of NASSQuickStats have run for geom.
NassBoundariesAfter(b, geom) ==
    LET h0 == <<b.states, b.counties>>
        c == BoundariesIntersects(h0, CountiesObj, CountiesMask(h0[CountiesObj], geom))
        st == BoundariesIntersects(c.heap, StatesObj,
                                   StatesMask(c.heap[StatesObj], geom))
    IN  [states |-> st.heap[StatesObj], counties |-> st.heap[CountiesObj]]

\* The two tables after get_counties_from_geometry of the remote provider has
\* run for geom: up to the early return, or through the in-place edits of the
\* frames it works on.
RemoteBoundariesAfter(b, geom) ==
    LET h0 == <<b.states, b.counties>>
        c == BoundariesIntersects(h0, CountiesObj, CountiesMask(h0[CountiesObj], geom))
    IN  IF c.heap[c.obj].rows = <<>>
        THEN [states |-> c.heap[StatesObj], counties |-> c.heap[CountiesObj]]
        ELSE LET st == BoundariesIntersects(c.heap, StatesObj,
                                            StatesMask(c.heap[StatesObj], geom))
                 st2 == SelectStatefpName(st.heap, st.obj)
                 h1 == StripStatefp(StripStatefp(st2.heap, c.obj), st2.obj)
                 h2 == SetIndexInPlace(SetIndexInPlace(h1, c.obj, "STATEFP"),
                                       st2.obj, "STATEFP")
             IN  [states |-> h2[StatesObj], counties |-> h2[CountiesObj]]

\* years_range = [2023]
DefaultYear == 2023

\* list(range(2020, 2025))
RemoteDefaultYears == <<2020, 2021, 2022, 2023, 2024>>

Years == (DefaultYear - MaxYears + 1)..DefaultYear

\* A dict is a function from keys to values; d.update(e) and d[k] = v.
Update(d, e) == e @@ d

SetKey(d, k, v) == (k :> v) @@ d

\* cql2_to_query_params(filter) of the filters a request may carry.
Filters ==
    {<<>>,
     [commodity_desc |-> "WHEAT"],
     [state_alpha |-> "AZ"],
     [state_fips_code |-> "99"],
     [county_name |-> "ELSEWHERE", short_desc |-> "CORN - ACRES PLANTED"]}

\* The keys of NASSQuickStats.queryables() (the remote provider declares the
\* same).
NassQueryables ==
    {"state_alpha", "county_name", "agg_level_desc", "source_desc",
     "statisticcat_desc", "commodity_desc"}

\* extra_params as search builds it from empty provider properties.
DefaultExtraParams == [source_desc |-> "SURVEY", commodity_desc |-> "CORN"]

\* self.api_default_params
ApiDefaultParams == [key |-> "API_KEY"]

\* The parameters of a request: bbox and intersects are <<>> when absent and
\* <<g>> when given, datetime is <<>> or <<start year, end year>>.
Requests ==
    [bbox : {<<>>} \cup {<<g>> : g \in Geoms},
     intersects : {<<>>} \cup {<<g>> : g \in Geoms},
     datetime : {<<>>} \cup (Years \X Years),
     filter : Filters,
     extra_params : {DefaultExtraParams}]

\* if bbox: ... elif intersects: ... else: the US box
GeomOf(req) ==
    IF req.bbox # <<>> THEN req.bbox[1]
    ELSE IF req.intersects # <<>> THEN req.intersects[1]
    ELSE UsBox

\* range(a, b + 1) read as the years between the two ends in either order.
RangeEitherWay(a, b) ==
    [j \in 1..(IF b >= a THEN b - a + 1 ELSE a - b + 1) |-> Min(a, b) + j - 1]

\* list(range(start_year, end_year + 1))
Range(a, b) == [j \in 1..(IF b >= a THEN b - a + 1 ELSE 0) |-> a + j - 1]

YearsRange(req, default) ==
    IF req.datetime # <<>> THEN Range(req.datetime[1], req.datetime[2]) ELSE default

----------------------------------------------------------------------------
(* create_query_list: the loop over units and years *)

\* for year_index, year in enumerate(years_range): the year (and, in the
\* remote provider, the query index: indexed = <<row_index>>) is written into
\* the dict object obj of the unit and a reference to obj is appended.
RECURSIVE YearLoop(_, _, _, _, _, _)
YearLoop(heap, list, obj, years, year_index, indexed) ==
    IF year_index >= Len(years) THEN [heap |-> heap, list |-> list]
    ELSE LET d == SetKey(heap[obj], "year", years[year_index + 1])
             d2 == IF indexed # <<>>
                   THEN SetKey(d, "query_index", indexed[1] * Len(years) + year_index)
                   ELSE d
         IN  YearLoop([heap EXCEPT ![obj] = d2], Append(list, obj), obj, years,
                      year_index + 1, indexed)

\* The dict of one state row, before the loop over years (NASSQuickStats).
NassQueryParams(row, filter, extra_params) ==
    LET d1 == Update(Update(<<>>, extra_params), ApiDefaultParams)
        d2 == SetKey(SetKey(SetKey(d1, "state_fips_code", row.STATEFP),
                            "sector_desc", "CROPS"),
                     "agg_level_desc", "COUNTY")
    IN  IF filter # <<>> THEN Update(d2, filter) ELSE d2

\* The dict of one county row, before the loop over years (remote provider).
RemoteQueryParams(row, filter) ==
    LET d == SetKey(SetKey(SetKey(<<>>, "county_name", row.county_name),
                           "state_alpha", row.state_alpha),
                    "sector_desc", "CROPS")
    IN  IF filter # <<>> THEN Update(d, filter) ELSE d

\* for row_index, row in <frame>.reset_index().iterrows(): one new dict per
\* row.  remote selects the provider's dict and the query_index assignment.
RECURSIVE UnitLoop(_, _, _, _, _, _, _, _)
UnitLoop(heap, list, rows, row_index, years, filter, extra_params, remote) ==
    IF row_index >= Len(rows) THEN [heap |-> heap, list |-> list]
    ELSE LET row == rows[row_index + 1]
             d == IF remote THEN RemoteQueryParams(row, filter)
                  ELSE NassQueryParams(row, filter, extra_params)
             st == YearLoop(Append(heap, d), list, Len(heap) + 1, years, 0,
                            IF remote THEN <<row_index>> ELSE <<>>)
         IN  UnitLoop(st.heap, st.list, rows, row_index + 1, years, filter,
                      extra_params, remote)

\* The list as the caller sees it: every reference read through the heap.
QueryList(st) == [j \in 1..Len(st.list) |-> st.heap[st.list[j]]]

\* NASSQuickStats.create_query_list
NassCreateQueryListOf(req) ==
    LET geom == GeomOf(req)
        counties_gdf == CountiesIntersects(geom)
        states_gdf == StatesIntersects(geom)
        years_range == YearsRange(req, <<DefaultYear>>)
        st == UnitLoop(<<>>, <<>>, states_gdf, 0, years_range, req.filter,
                       req.extra_params, FALSE)
    IN  [provider |-> "nass", status |-> "ok", query_list |-> QueryList(st),
         counties_gdf |-> counties_gdf]

\* str.upper() on the names of the tables.
Upper(str) ==
    CASE str = "Autauga" -> "AUTAUGA"
      [] str = "Juneau" -> "JUNEAU"
      [] str = "al" -> "AL"
      [] str = "ak" -> "AK"
      [] OTHER -> str

\* sort_values(by=["COUNTYNS"])
RECURSIVE SortByCountyNs(_)
SortByCountyNs(rows) ==
    IF rows = <<>> THEN <<>>
    ELSE LET least == CHOOSE j \in 1..Len(rows) :
                          \A l \in 1..Len(rows) : rows[j].COUNTYNS <= rows[l].COUNTYNS
         IN  <<rows[least]>>
                 \o SortByCountyNs([l \in 1..(Len(rows) - 1) |->
                                       IF l < least THEN rows[l] ELSE rows[l + 1]])

\* NASSQuickStatsRemoteProvider.get_counties_from_geometry: what it leaves in
\* self.counties_gdf, or that it raised.
RemoteGetCounties(self_counties_gdf, geom, has_aplha) ==
    LET counties_df == CountiesIntersects(geom)
    IN  IF counties_df = <<>>
        THEN [raised |-> FALSE, counties_gdf |-> self_counties_gdf]
        ELSE IF ~has_aplha
        \* counties_and_states["state_aplha"]
        THEN [raised |-> TRUE, counties_gdf |-> self_counties_gdf]
        ELSE LET sorted == SortByCountyNs(counties_df)
             IN  [raised |-> FALSE,
                  counties_gdf |->
                      <<[j \in 1..Len(sorted) |->
                            [county_name |-> Upper(sorted[j].NAME),
                             state_alpha |-> Upper(sorted[j].state_aplha),
                             COUNTYNS |-> sorted[j].COUNTYNS]]>>]

\* NASSQuickStatsRemoteProvider.create_query_list
RemoteCreateQueryListOf(req, self_counties_gdf, has_aplha) ==
    LET got == RemoteGetCounties(self_counties_gdf, GeomOf(req), has_aplha)
    IN  IF got.raised \/ got.counties_gdf = <<>>
        \* KeyError 'state_aplha', or AttributeError: no attribute counties_gdf
        THEN [provider |-> "remote", status |-> "error", query_list |-> <<>>,
              counties_gdf |-> <<>>, self |-> got.counties_gdf]
        ELSE LET years_range == YearsRange(req, RemoteDefaultYears)
                 st == UnitLoop(<<>>, <<>>, got.counties_gdf[1], 0, years_range,
                                req.filter, <<>>, TRUE)
             IN  [provider |-> "remote", status |-> "ok",
                  query_list |-> QueryList(st),
                  counties_gdf |-> got.counties_gdf[1], self |-> got.counties_gdf]

----------------------------------------------------------------------------
(* The state machine of the page assembler *)

\* The plan and responses of the worked example: sub-queries whose joined
\* results hold 3, 5, 2, 0, 1 and 4 rows.
Rep(n, county) == [i \in 1..n |-> county]

ExampleBackend ==
    <<Ok(Rep(3, "c1")), Ok(Rep(5, "c1")), Ok(Rep(2, "c1")),
      Ok(Rep(1, "c2")), Ok(Rep(1, "c1")), Ok(Rep(4, "c1"))>>

ExampleCursor == Cursor(0, 4, 0)

\* The plans the sequences run over.  A plan of one sub-query takes every
\* response; a longer plan is drawn over PlanResponses: full and partly or
\* wholly out-of-county results of one to three rows and the two failures.
ServerError == [status |-> 500, body |-> "data", data |-> <<>>]

EmptyBody == [status |-> 200, body |-> "empty", data |-> <<>>]

PlanResponses ==
    {Ok(Rep(1, "c1")), Ok(Rep(2, "c1")), Ok(Rep(3, "c1")), Ok(<<"c2", "c1">>),
     Ok(Rep(1, "c2")), ServerError, EmptyBody}

Backends ==
    {<<>>} \cup {<<r>> : r \in Responses}
        \cup UNION {[1..n -> PlanResponses] : n \in 2..MaxPlanLen}

NoCall(p) ==
    [in |-> p, status |-> "none", rows |-> <<>>, next |-> <<>>,
     fetched |-> <<>>, asked |-> <<>>]

NoRequest ==
    [bbox |-> <<>>, intersects |-> <<>>, datetime |-> <<>>, filter |-> <<>>,
     extra_params |-> DefaultExtraParams]

NoPlan ==
    [provider |-> "none", status |-> "none", query_list |-> <<>>,
     counties_gdf |-> <<>>]

\* No planning is in progress.
PlanIdle ==
    /\ planIn = NoRequest
    /\ planOut = NoPlan
    /\ planAgain = NoPlan
    /\ boundaries = LoadedBoundaries
    /\ selfCountiesGdf = <<>>
    /\ countiesHasAplha = FALSE

\* No search is in progress on the remote provider.
RemoteIdle ==
    /\ selfQueryList = <<>>
    /\ remoteCache = {}
    /\ reqs = <<>>

\* No search has been made to an EIA provider.
EiaIdle ==
    /\ eiaReq = <<>>
    /\ eiaBackend = <<>>
    /\ eiaToken = <<>>
    /\ eiaLast = <<>>
    /\ eiaAcc = <<>>
    /\ eiaCount = <<>>
    /\ eiaCalls = 0
    /\ eiaFresh = TRUE

InitWith(b, p) ==
    /\ PlanIdle
    /\ RemoteIdle
    /\ EiaIdle
    /\ backend = b
    /\ cache = <<>>
    /\ wire = <<>>
    /\ pagination = p
    /\ last = NoCall(p)
    /\ uncached = NoCall(p)
    /\ acc = <<>>
    /\ calls = 0
    /\ fromFresh = (p = Fresh(p.pageSize))

Init ==
    \/ \E b \in Backends, ps \in 1..MaxPageSize, o \in 0..MaxRows :
         \E r \in 0..(Len(b) + 1) : InitWith(b, Cursor(o, ps, r))
    \/ \E ps \in 1..4, o \in 0..MaxRows, r \in 0..1 :
         InitWith(ExampleBackend, Cursor(o, ps, r))

\* One call of make_request with the cursor the caller holds.
MakeRequest ==
    /\ calls < MaxCalls
    /\ last.status # "error"
    /\ last.status = "ok" => last.next # <<>>
    /\ LET res == make_request(pagination, backend, cache)
       IN  /\ last' = [in |-> res.in, status |-> res.status, rows |-> res.rows,
                       next |-> res.next, fetched |-> res.fetched,
                       asked |-> res.asked]
           /\ cache' = res.cache
           /\ pagination' = IF res.next # <<>> THEN res.next[1] ELSE pagination
           /\ acc' = acc \o res.rows
    /\ calls' = calls + 1
    /\ UNCHANGED <<backend, fromFresh, uncached, wire, planVars, remoteVars, eiaVars>>

\* The cache entries expire (ttl) between two calls.
CacheExpire ==
    /\ cache # <<>>
    /\ last.status = "ok"
    /\ last.next # <<>>
    /\ cache' = <<>>
    /\ UNCHANGED <<backend, pagination, last, acc, calls, fromFresh, uncached, wire,
                   planVars, remoteVars, eiaVars>>

Next == MakeRequest \/ CacheExpire

Spec == Init /\ [][Next]_vars

----------------------------------------------------------------------------
(* The page assembler with and without the cache, over an API that recovers *)

\* Plans whose sub-queries succeed or fail with a server error.
RecoveringBackends ==
    UNION {[1..n -> {Ok(Rep(1, "c1")), Ok(Rep(2, "c1")), ServerError}] :
              n \in 1..MaxPlanLen}

InitCache ==
    /\ PlanIdle
    /\ RemoteIdle
    /\ EiaIdle
    /\ backend \in RecoveringBackends
    /\ cache = <<>>
    /\ wire = <<>>
    /\ pagination \in {Fresh(ps) : ps \in 1..MaxPageSize}
    /\ last = NoCall(pagination)
    /\ uncached = NoCall(pagination)
    /\ acc = <<>>
    /\ calls = 0
    /\ fromFresh = TRUE

\* One call of make_request with the cursor the caller holds (after an
\* error: the same cursor again), next to the same call with _make_request
\* not cached.
SearchCall ==
    /\ calls < MaxCalls
    /\ last.status = "ok" => last.next # <<>>
    /\ LET res == make_request(pagination, backend, cache)
           un == make_request(pagination, backend, <<>>)
       IN  /\ last' = [in |-> res.in, status |-> res.status, rows |-> res.rows,
                       next |-> res.next, fetched |-> res.fetched,
                       asked |-> res.asked]
           /\ uncached' = [in |-> un.in, status |-> un.status, rows |-> un.rows,
                           next |-> un.next, fetched |-> un.fetched,
                           asked |-> un.asked]
           /\ cache' = res.cache
           /\ pagination' = IF res.next # <<>> THEN res.next[1] ELSE pagination
           /\ acc' = acc \o res.rows
    /\ calls' = calls + 1
    /\ UNCHANGED <<backend, fromFresh, wire, planVars, remoteVars, eiaVars>>

\* The API starts to answer a sub-query it failed on.
BackendRecovers ==
    /\ calls < MaxCalls
    /\ \E k \in 1..Len(backend), n \in 1..MaxRows :
          /\ backend[k].status # 200
          /\ backend' = [backend EXCEPT ![k] = Ok(Rep(n, "c1"))]
    /\ UNCHANGED <<cache, pagination, last, acc, calls, fromFresh, uncached, wire,
                   planVars, remoteVars, eiaVars>>

NextCache == SearchCall \/ BackendRecovers \/ CacheExpire

SpecCache == InitCache /\ [][NextCache]_vars

----------------------------------------------------------------------------
(* The state machine of the planner *)

InitPlan ==
    /\ planIn \in Requests
    /\ planOut = NoPlan
    /\ planAgain = NoPlan
    /\ boundaries = LoadedBoundaries
    /\ selfCountiesGdf = <<>>
    /\ countiesHasAplha \in BOOLEAN
    /\ RemoteIdle
    /\ EiaIdle
    /\ backend = <<>>
    /\ cache = <<>>
    /\ wire = <<>>
    /\ pagination = Fresh(1)
    /\ last = NoCall(Fresh(1))
    /\ uncached = NoCall(Fresh(1))
    /\ acc = <<>>
    /\ calls = 0
    /\ fromFresh = TRUE

\* search of NASSQuickStats builds the plan of the request.
NassCreateQueryList ==
    /\ planOut.status = "none"
    /\ planOut' = NassCreateQueryListOf(planIn)
    /\ boundaries' = NassBoundariesAfter(boundaries, GeomOf(planIn))
    /\ UNCHANGED <<planIn, planAgain, selfCountiesGdf, countiesHasAplha, pagingVars,
                   remoteVars, eiaVars>>

\* search of NASSQuickStatsRemoteProvider builds the plan of the request.
RemoteCreateQueryList ==
    /\ planOut.status = "none"
    /\ LET res == RemoteCreateQueryListOf(planIn, selfCountiesGdf, countiesHasAplha)
       IN  /\ planOut' = [provider |-> res.provider, status |-> res.status,
                          query_list |-> res.query_list,
                          counties_gdf |-> res.counties_gdf]
           /\ selfCountiesGdf' = res.self
    /\ boundaries' = RemoteBoundariesAfter(boundaries, GeomOf(planIn))
    /\ UNCHANGED <<planIn, planAgain, countiesHasAplha, pagingVars, remoteVars,
                   eiaVars>>

\* A second search of NASSQuickStats with the same parameters builds its plan.
NassCreateQueryListAgain ==
    /\ planOut.provider = "nass"
    /\ planAgain.status = "none"
    /\ planAgain' = NassCreateQueryListOf(planIn)
    /\ boundaries' = NassBoundariesAfter(boundaries, GeomOf(planIn))
    /\ UNCHANGED <<planIn, planOut, selfCountiesGdf, countiesHasAplha, pagingVars,
                   remoteVars, eiaVars>>

\* A second search of NASSQuickStatsRemoteProvider with the same parameters
\* builds its plan on the same instance.
RemoteCreateQueryListAgain ==
    /\ planOut.provider = "remote"
    /\ planAgain.status = "none"
    /\ LET res == RemoteCreateQueryListOf(planIn, selfCountiesGdf, countiesHasAplha)
       IN  /\ planAgain' = [provider |-> res.provider, status |-> res.status,
                            query_list |-> res.query_list,
                            counties_gdf |-> res.counties_gdf]
           /\ selfCountiesGdf' = res.self
    /\ boundaries' = RemoteBoundariesAfter(boundaries, GeomOf(planIn))
    /\ UNCHANGED <<planIn, planOut, countiesHasAplha, pagingVars, remoteVars,
                   eiaVars>>

NextPlan ==
    \/ NassCreateQueryList
    \/ RemoteCreateQueryList
    \/ NassCreateQueryListAgain
    \/ RemoteCreateQueryListAgain

SpecPlan == InitPlan /\ [][NextPlan]_vars

----------------------------------------------------------------------------
(* NASSQuickStatsRemoteProvider.search and make_request *)

\* What the API may answer to one request of the remote provider.
RemoteResponses == {Ok(<<"c1">>), Ok(<<>>), ServerError, EmptyBody}

\* limit = kwargs.pop("limit", 10)
DefaultLimit == 10

\* The body of NASSQuickStatsRemoteProvider.make_request (what runs on a
\* cache miss): pagination_arg is <<>> when falsy and <<p>> otherwise; resp is the
\* answer of the API.  The geometry is looked up under the key
\* (state_alpha, county_name) in a frame indexed by (county_name, state_alpha).
remote_make_request(pagination_arg, self_query_list, self_counties_gdf, resp) ==
    IF pagination_arg = <<>>
    THEN [status |-> "ok", rows |-> <<>>, next |-> <<Cursor(0, 10, 0)>>,
          asked |-> <<>>]
    ELSE
      LET p == pagination_arg[1]
          resource_index == get_current(p)[3]
      IN
      IF resource_index >= Len(self_query_list)
      THEN [status |-> "ok", rows |-> <<>>, next |-> <<p>>, asked |-> <<>>]
      ELSE
        LET api_params == self_query_list[resource_index + 1]
            index == {<<self_counties_gdf[j].county_name,
                        self_counties_gdf[j].state_alpha>> :
                          j \in 1..Len(self_counties_gdf)}
            key == <<api_params.state_alpha, api_params.county_name>>
            next_pagination == get_next_token(p, 0, resource_index + 1)
        IN
        IF resp.status = 200
        THEN IF resp.body = "empty" \/ key \notin index
             \* KeyError from res["data"] or from counties_gdf.loc[...]
             THEN [status |-> "error", rows |-> <<>>, next |-> <<>>,
                   asked |-> <<api_params>>]
             ELSE [status |-> "ok",
                   rows |-> DataFrame(resource_index, resp.data).rows,
                   next |-> <<next_pagination>>, asked |-> <<api_params>>]
        ELSE [status |-> "ok", rows |-> <<>>, next |-> <<next_pagination>>,
              asked |-> <<api_params>>]

\* Geometries of the requests made to the remote provider: one that meets
\* no county and one that meets Autauga county only.
NoCountyGeom == [states |-> {"04"}, counties |-> {}]

AutaugaGeom == [states |-> {"01"}, counties |-> {2}]

\* The keyword arguments of the searches made to the remote provider.
RemoteKwargs ==
    {r \in Requests :
        /\ r.intersects = <<>>
        /\ r.bbox \in {<<>>, <<NoCountyGeom>>, <<AutaugaGeom>>}
        /\ r.datetime \in {<<>>, <<DefaultYear - 1, DefaultYear>>}
        /\ r.filter \in {<<>>, [commodity_desc |-> "WHEAT"]}}

\* The pagination a search arrives with: none, or the token of a second page.
RemoteTokens == {<<>>, <<Cursor(0, DefaultLimit, 1)>>}

NoOut ==
    [status |-> "none", rows |-> <<>>, next |-> <<>>, asked |-> <<>>,
     resp |-> <<>>, hit |-> FALSE]

\* The requests served by the threads of the one provider instance.
Slots == {1, 2}

InitRemote ==
    /\ planIn = NoRequest
    /\ planOut = NoPlan
    /\ planAgain = NoPlan
    /\ boundaries = LoadedBoundaries
    /\ selfCountiesGdf = <<>>
    /\ countiesHasAplha \in BOOLEAN
    /\ backend = <<>>
    /\ cache = <<>>
    /\ wire = <<>>
    /\ pagination = Fresh(1)
    /\ last = NoCall(Fresh(1))
    /\ uncached = NoCall(Fresh(1))
    /\ acc = <<>>
    /\ calls = 0
    /\ fromFresh = TRUE
    /\ EiaIdle
    /\ selfQueryList = <<>>
    /\ remoteCache = {}
    /\ reqs \in [Slots -> [kwargs : RemoteKwargs, token : RemoteTokens,
                           pc : {"start"}, plan : {<<>>}, out : {NoOut}]]

\* search up to line 273: self.query_list = self.create_query_list(**kwargs).
RemoteSearchPlan(i) ==
    /\ reqs[i].pc = "start"
    /\ LET res == RemoteCreateQueryListOf(reqs[i].kwargs, selfCountiesGdf,
                                          countiesHasAplha)
       IN  /\ selfCountiesGdf' = res.self
           /\ IF res.status = "error"
              THEN /\ reqs' = [reqs EXCEPT ![i].pc = "done",
                                           ![i].out.status = "error"]
                   /\ UNCHANGED selfQueryList
              ELSE /\ reqs' = [reqs EXCEPT ![i].pc = "planned",
                                           ![i].plan = <<res.query_list>>]
                   /\ selfQueryList' = <<res.query_list>>
    /\ boundaries' = RemoteBoundariesAfter(boundaries, GeomOf(reqs[i].kwargs))
    /\ UNCHANGED <<remoteCache, planIn, planOut, planAgain, countiesHasAplha,
                   pagingVars, eiaVars>>

\* search from line 278: the default pagination, then make_request behind
\* @cached.  The key of the cache is (pagination, kwargs); whether two equal
\* tokens of two requests make equal keys is left open.  A result is stored
\* when the call returns, not when it raises.
RemoteSearchFetch(i) ==
    /\ reqs[i].pc = "planned"
    /\ LET p == IF reqs[i].token # <<>> THEN reqs[i].token
                ELSE <<Cursor(0, DefaultLimit, 0)>>
           k == [token |-> p, kwargs |-> reqs[i].kwargs]
       IN  \/ \E e \in remoteCache :
                /\ e.key = k
                /\ reqs' = [reqs EXCEPT ![i].pc = "done",
                                        ![i].out = [e.out EXCEPT !.hit = TRUE]]
                /\ UNCHANGED remoteCache
           \/ \E resp \in RemoteResponses :
                LET res == remote_make_request(p, selfQueryList[1],
                                               selfCountiesGdf[1], resp)
                    out == [status |-> res.status, rows |-> res.rows,
                            next |-> res.next, asked |-> res.asked,
                            resp |-> IF res.asked # <<>> THEN <<resp>> ELSE <<>>,
                            hit |-> FALSE]
                IN  /\ reqs' = [reqs EXCEPT ![i].pc = "done", ![i].out = out]
                    /\ remoteCache' =
                          IF res.status = "ok" /\ ~(\E e \in remoteCache : e.key = k)
                          THEN remoteCache \cup {[key |-> k, out |-> out]}
                          ELSE remoteCache
    /\ UNCHANGED <<selfQueryList, planVars, pagingVars, eiaVars>>

NextRemote == \E i \in Slots : RemoteSearchPlan(i) \/ RemoteSearchFetch(i)

SpecRemote == InitRemote /\ [][NextRemote]_vars

----------------------------------------------------------------------------
(* Strings of filter values *)

\* A string is the sequence of its pieces: a comma, a blank, a tab, or a run
\* of other characters such as "AL".
Whitespace == {" ", "\t"}

\* str.split(","): the parts between the commas, empty parts included.
RECURSIVE Split(_)
Split(v) ==
    LET commas == {j \in 1..Len(v) : v[j] = ","}
    IN  IF commas = {} THEN <<v>>
        ELSE LET j == CHOOSE c \in commas : \A d \in commas : c <= d
             IN  <<SubSeq(v, 1, j - 1)>> \o Split(SubSeq(v, j + 1, Len(v)))

RECURSIVE LStrip(_)
LStrip(x) == IF x # <<>> /\ Head(x) \in Whitespace THEN LStrip(Tail(x)) ELSE x

RECURSIVE RStrip(_)
RStrip(x) ==
    IF x # <<>> /\ x[Len(x)] \in Whitespace THEN RStrip(SubSeq(x, 1, Len(x) - 1))
    ELSE x

\* Whitespace removed at the front only.
StripLeft(x) == LStrip(x)

\* str.strip()
Strip(x) == RStrip(LStrip(x))

\* dict.get(k, default)
Get(d, k, default) == IF k \in DOMAIN d THEN d[k] ELSE default

----------------------------------------------------------------------------
(* The EIA providers: facets, states, search *)

\* MAX_PAGE_SIZE = 5000
MAX_PAGE_SIZE == 5000

\* list(self.queryables()["generators"].keys())
GeneratorsQueryables ==
    {"balancing_authority_code", "energy_source_code", "entityid", "generatorid",
     "plantid", "prime_mover_code", "sector", "stateid", "status", "technology",
     "unit"}

\* The keys update_facets of EIAElectricity lets through.
PowerFacetKeys == {"timezone", "respondent", "subba", "fueltype"}

\* self.queryables()["electricity"].keys()
PowerQueryables == {"respondent", "subba", "timezone", "fueltype"}

\* p = {k: v for k, v in p.items() if k in allowed}
\* for k, v in p.items(): facets[k] = [x.strip() for x in v.split(",")]
UpdateFacetsOf(facets, filter, allowed) ==
    [k \in DOMAIN filter \cap allowed |->
        [j \in 1..Len(Split(filter[k])) |-> Strip(Split(filter[k])[j])]] @@ facets

\* EIAGenerators.update_facets
generators_update_facets(x_params, filter) ==
    [x_params EXCEPT !.facets = UpdateFacetsOf(@, filter, GeneratorsQueryables)]

\* EIAElectricity.update_facets: for hourly data the key "timezome" is popped.
power_update_facets(x_params, filter) ==
    LET f == UpdateFacetsOf(x_params.facets, filter, PowerFacetKeys)
    IN  [x_params EXCEPT
            !.facets = IF x_params.frequency = "hourly"
                       THEN [k \in DOMAIN f \ {"timezome"} |-> f[k]]
                       ELSE f]

\* The orders list(isect) may enumerate a set in.
Orders(S) ==
    {o \in [1..Cardinality(S) -> S] : \A a, b \in 1..Cardinality(S) : a # b => o[a] # o[b]}

\* EIAGenerators.update_states; list(isect) enumerates the set in an order
\* of its own: the one the sequence order ranks the codes in.
update_states(x_params, states_df, order) ==
    LET states == Get(x_params.facets, "stateid", <<>>)
        states_set == {states[j] : j \in 1..Len(states)}
        all == {<<states_df[j].STUSPS>> : j \in 1..Len(states_df)}
        isect == IF Cardinality(states_set) > 0 THEN states_set \cap all ELSE all
    IN  IF isect # {}
        THEN [valid |-> TRUE,
              x_params |-> [x_params EXCEPT
                              !.facets = SetKey(@, "stateid",
                                                 SelectSeq(order, LAMBDA c : c \in isect))]]
        ELSE [valid |-> FALSE, x_params |-> x_params]

\* Every order the state codes may be ranked in.
StateOrders == Orders({<<StatesDf[j].STUSPS>> : j \in 1..Len(StatesDf)})

\* Where the states lie: on the line y = 0 at x = 0, 1, 2 in load order.
\* geometry.box(*bbox): shapely's box(minx, miny, maxx, maxy, ccw=True) takes
\* four or five positional arguments; any other number is a TypeError.
Between(a, x, b) == (a <= x /\ x <= b) \/ (b <= x /\ x <= a)

BoxOf(bbox) ==
    IF Len(bbox) \in {4, 5}
    THEN [raised |-> FALSE,
          geom |-> [states |-> {StatesDf[j].STATEFP : j \in
                                  {l \in 1..Len(StatesDf) :
                                      /\ Between(bbox[1], l - 1, bbox[3])
                                      /\ Between(bbox[2], 0, bbox[4])}},
                    counties |-> {}]]
    ELSE [raised |-> TRUE, geom |-> <<>>]

\* parse_datetime: None is <<>>.
parse_datetime(datetimes) ==
    IF datetimes = <<>> THEN [start |-> <<>>, end |-> <<>>]
    ELSE [start |-> <<datetimes[1]>>, end |-> <<datetimes[2]>>]

\* EIAElectricity.parse_provider_properties: the parameters, or raised.
parse_provider_properties(provider_properties) ==
    LET frequency == Get(provider_properties, "frequency", "daily")
        fueltype == Get(provider_properties, "fueltype", <<>>)
    IN  IF frequency \notin {"hourly", "daily"}
        THEN [raised |-> TRUE, params |-> <<>>]
        ELSE IF fueltype # <<>>
        THEN [raised |-> FALSE,
              params |->
                [frequency |-> frequency,
                 api |-> IF frequency = "daily" THEN "daily-fuel-type-data"
                         ELSE "fuel-type-data",
                 facets |->
                    IF frequency = "daily"
                    THEN [fueltype |-> fueltype,
                          timezone |-> Get(provider_properties, "timezone",
                                           <<<<"Eastern">>>>)]
                    ELSE [fueltype |-> fueltype]]]
        ELSE [raised |-> FALSE,
              params |->
                [frequency |-> frequency,
                 api |-> IF frequency = "hourly" THEN "region-data"
                         ELSE "daily-region-data",
                 facets |->
                    IF frequency = "hourly"
                    THEN [type |-> <<Get(provider_properties, "metric", <<"D">>)>>]
                    ELSE [type |-> <<Get(provider_properties, "metric", <<"D">>)>>,
                          timezone |-> <<<<"Eastern">>>>]]]

\* if limit == 0: limit = self.max_page_size
EiaLimit(limit) == IF limit = 0 THEN MAX_PAGE_SIZE ELSE limit

\* _get_pagination: Pagination(pagination, limit) or Pagination({}, limit)
get_pagination(token, limit) == IF token # <<>> THEN token[1] ELSE Fresh(limit)

\* The JSON the API answers with: an error payload, or the total and the
\* slice of its sorted rows that offset and length select.
EiaResponse(b, x_params) ==
    IF b.error THEN [error |-> TRUE, total |-> 0, data |-> <<>>]
    ELSE [error |-> FALSE, total |-> b.total,
          data |-> Slice([j \in 1..b.total |-> j], x_params.offset,
                         x_params.offset + x_params.length)]

\* Outcomes of a search: a (page, pagination) pair, a bare integer, or an
\* exception.
Pair(rows, next, sent) ==
    [kind |-> "pair", rows |-> rows, next |-> next, value |-> 0, sent |-> sent,
     error |-> ""]

Total(value, sent) ==
    [kind |-> "int", rows |-> <<>>, next |-> <<>>, value |-> value, sent |-> sent,
     error |-> ""]

Raised(error, sent) ==
    [kind |-> "error", rows |-> <<>>, next |-> <<>>, value |-> 0, sent |-> sent,
     error |-> error]

\* The offset of the next token without the offset of this page.
NextOffsetLen(offset, n) == n

\* pagination.get_next_token(offset + len(gdf))
NextOffset(offset, n) == offset + n

\* EIAGenerators.search
generators_search(req, token, count_only, b, order) ==
    LET pg == get_pagination(token, EiaLimit(req.limit))
        cur == get_current(pg)
        offset == cur[1]
        length == IF count_only THEN 0 ELSE cur[2]
        dt == parse_datetime(req.datetime)
        x0 == [frequency |-> "monthly", facets |-> <<>>, offset |-> offset,
               length |-> length, start |-> dt.start, end |-> dt.end]
        x1 == generators_update_facets(x0, req.filter)
        box == IF req.bbox # <<>> THEN BoxOf(req.bbox)
               ELSE [raised |-> FALSE, geom |-> <<>>]
        geom == IF req.intersects # <<>> THEN req.intersects
                ELSE IF req.bbox # <<>> THEN <<box.geom>> ELSE <<>>
        us == IF geom # <<>> THEN update_states(x1, StatesIntersects(geom[1]), order)
              ELSE [valid |-> TRUE, x_params |-> x1]
        res == EiaResponse(b, us.x_params)
    IN  IF box.raised THEN Raised("TypeError", <<>>)
        ELSE IF ~us.valid THEN Pair(<<>>, <<>>, <<>>)
        ELSE IF res.error THEN Raised("ValueError", <<us.x_params>>)
        ELSE IF count_only THEN Total(res.total, <<us.x_params>>)
        ELSE IF res.data # <<>>
        THEN Pair(res.data,
                  <<get_next_token(pg, NextOffset(offset, Len(res.data)),
                                   pg.resourceIndex)>>,
                  <<us.x_params>>)
        ELSE Pair(<<>>, <<>>, <<us.x_params>>)

\* EIAElectricity.search; gdf.period of a frame built from no rows is an
\* AttributeError.
power_search(req, token, count_only, b) ==
    LET pg == get_pagination(token, EiaLimit(req.limit))
        cur == get_current(pg)
        offset == cur[1]
        length == IF count_only THEN 0 ELSE cur[2]
        pp == parse_provider_properties(req.provider_properties)
        dt == parse_datetime(req.datetime)
        x0 == [frequency |-> pp.params.frequency, facets |-> pp.params.facets,
               api |-> pp.params.api, offset |-> offset, length |-> length,
               start |-> dt.start, end |-> dt.end]
        x1 == power_update_facets(x0, req.filter)
        res == EiaResponse(b, x1)
    IN  IF pp.raised THEN Raised("ValueError", <<>>)
        ELSE IF res.error THEN Raised("ValueError", <<x1>>)
        ELSE IF count_only THEN Total(res.total, <<x1>>)
        ELSE IF res.data = <<>> THEN Raised("AttributeError", <<x1>>)
        ELSE Pair(res.data,
                  <<get_next_token(pg, NextOffset(offset, Len(res.data)),
                                   pg.resourceIndex)>>,
                  <<x1>>)

----------------------------------------------------------------------------
(* The state machine of the EIA searches *)

\* Bounding boxes: none, four coordinates (over all states, over two, over
\* none), and three, five and six coordinates.
BBoxes ==
    {<<>>, <<0, 0, 2, 0>>, <<1, 0, 2, 0>>, <<0, 1, 2, 1>>, <<0, 0, 2>>,
     <<0, 0, 2, 0, 1>>, <<0, 0, 2, 0, 0, 0>>}

\* cql2_to_query_params(filter) of the filters of the EIA requests.
EiaFilters ==
    {<<>>, [stateid |-> <<"AZ">>], [stateid |-> <<"AL", ",", " ", "AK">>],
     [timezone |-> <<"Pacific">>, colour |-> <<"red">>]}

\* The limits of the searches: none (0), small ones, and one above the
\* largest page of the API.
EiaLimits == (0..MaxPageSize) \cup {MAX_PAGE_SIZE + 1}

GeneratorsRequests ==
    [provider : {"generators"}, limit : EiaLimits, bbox : BBoxes,
     intersects : {<<>>, <<[states |-> {"01"}, counties |-> {}]>>},
     filter : EiaFilters, datetime : {<<>>}, provider_properties : {<<>>}]

PowerRequests ==
    [provider : {"power"}, limit : EiaLimits, bbox : {<<>>},
     intersects : {<<>>}, filter : EiaFilters,
     datetime : {<<>>, <<DefaultYear, DefaultYear>>},
     provider_properties : {<<>>, [frequency |-> "hourly"],
                            [frequency |-> "yearly"],
                            [fueltype |-> <<<<"NG">>>>]}]

EiaBackends == [total : 0..MaxTotal, error : BOOLEAN]

\* The pagination of the first search: none, or a token with some offset.
EiaTokens == {<<>>} \cup {<<Cursor(o, 1, 0)>> : o \in 1..(MaxTotal + 1)}

NoEiaCall == [kind |-> "none", rows |-> <<>>, next |-> <<>>, value |-> 0,
              sent |-> <<>>, error |-> "", in |-> <<>>]

InitEia ==
    /\ PlanIdle
    /\ RemoteIdle
    /\ backend = <<>>
    /\ cache = <<>>
    /\ wire = <<>>
    /\ pagination = Fresh(1)
    /\ last = NoCall(Fresh(1))
    /\ uncached = NoCall(Fresh(1))
    /\ acc = <<>>
    /\ calls = 0
    /\ fromFresh = TRUE
    /\ eiaReq \in GeneratorsRequests \cup PowerRequests
    /\ eiaBackend \in EiaBackends
    /\ eiaToken \in EiaTokens
    /\ eiaLast = NoEiaCall
    /\ eiaAcc = <<>>
    /\ eiaCount = NoEiaCall
    /\ eiaCalls = 0
    /\ eiaFresh = (eiaToken = <<>>)

\* The orders that matter to the request: list(isect) is only evaluated
\* when the search has a geometry.
EiaOrders ==
    IF eiaReq.provider = "generators" /\ (eiaReq.bbox # <<>> \/ eiaReq.intersects # <<>>)
    THEN StateOrders
    ELSE {<<>>}

\* search of the provider the request goes to.
EiaSearchOf(token, count_only, order) ==
    LET res == IF eiaReq.provider = "generators"
               THEN generators_search(eiaReq, token, count_only, eiaBackend, order)
               ELSE power_search(eiaReq, token, count_only, eiaBackend)
    IN  [kind |-> res.kind, rows |-> res.rows, next |-> res.next,
         value |-> res.value, sent |-> res.sent, error |-> res.error,
         in |-> token]

\* One search for a page, with the pagination the caller holds.
EiaSearch ==
    /\ eiaCalls <= MaxTotal + 1
    /\ eiaLast.kind \in {"none", "pair"}
    /\ eiaLast.kind = "pair" => eiaLast.next # <<>>
    /\ \E order \in EiaOrders :
          LET res == EiaSearchOf(eiaToken, FALSE, order)
          IN  /\ eiaLast' = res
              /\ eiaToken' = IF res.next # <<>> THEN res.next ELSE eiaToken
              /\ eiaAcc' = eiaAcc \o res.rows
    /\ eiaCalls' = eiaCalls + 1
    /\ UNCHANGED <<eiaReq, eiaBackend, eiaCount, eiaFresh, pagingVars, planVars,
                   remoteVars>>

\* The search with count_only set, without pagination.
EiaCountOnly ==
    /\ eiaCount.kind = "none"
    /\ \E order \in EiaOrders : eiaCount' = EiaSearchOf(<<>>, TRUE, order)
    /\ UNCHANGED <<eiaReq, eiaBackend, eiaToken, eiaLast, eiaAcc, eiaCalls, eiaFresh,
                   pagingVars, planVars, remoteVars>>

NextEia == EiaSearch \/ EiaCountOnly

SpecEia == InitEia /\ [][NextEia]_vars

----------------------------------------------------------------------------
(* update_facets on its own *)

\* The values of a filter key: every string of up to MaxLen pieces.
FilterValues == UNION {[1..n -> {"a", ",", " "}] : n \in 0..MaxLen}

\* Filters with a key one of the providers declares ("stateid", "timezone"),
\* alone or next to a key no provider declares.
FacetFilters ==
    {<<>>, [colour |-> <<"red">>]}
        \cup {[stateid |-> v] : v \in FilterValues}
        \cup {[timezone |-> v] : v \in FilterValues}
        \cup {[stateid |-> v, colour |-> <<"red">>] : v \in FilterValues}
        \cup {[timezone |-> v, colour |-> <<"red">>] : v \in FilterValues}

FacetRequests ==
    [provider : {"generators"}, limit : {0}, bbox : {<<>>}, intersects : {<<>>},
     filter : FacetFilters, datetime : {<<>>}, provider_properties : {<<>>}]
        \cup
    [provider : {"power"}, limit : {0}, bbox : {<<>>}, intersects : {<<>>},
     filter : FacetFilters, datetime : {<<>>},
     provider_properties : {<<>>, [frequency |-> "hourly"],
                            [fueltype |-> <<<<"NG">>>>]}]

\* x_params as search hands it to update_facets.
XParamsOf(req) ==
    IF req.provider = "generators"
    THEN [frequency |-> "monthly", facets |-> <<>>]
    ELSE [frequency |-> parse_provider_properties(req.provider_properties).params.frequency,
          facets |-> parse_provider_properties(req.provider_properties).params.facets]

InitFacets ==
    /\ PlanIdle
    /\ RemoteIdle
    /\ backend = <<>>
    /\ cache = <<>>
    /\ wire = <<>>
    /\ pagination = Fresh(1)
    /\ last = NoCall(Fresh(1))
    /\ uncached = NoCall(Fresh(1))
    /\ acc = <<>>
    /\ calls = 0
    /\ fromFresh = TRUE
    /\ eiaReq \in FacetRequests
    /\ eiaBackend = [total |-> 0, error |-> FALSE]
    /\ eiaToken = <<>>
    /\ eiaLast = NoEiaCall
    /\ eiaAcc = <<>>
    /\ eiaCount = NoEiaCall
    /\ eiaCalls = 0
    /\ eiaFresh = TRUE

\* self.update_facets(x_params, filter) of the provider the request goes to.
UpdateFacets ==
    /\ eiaLast.kind = "none"
    /\ LET x == IF eiaReq.provider = "generators"
                THEN generators_update_facets(XParamsOf(eiaReq), eiaReq.filter)
                ELSE power_update_facets(XParamsOf(eiaReq), eiaReq.filter)
       IN  eiaLast' = [NoEiaCall EXCEPT !.kind = "facets", !.sent = <<x>>]
    /\ UNCHANGED <<eiaReq, eiaBackend, eiaToken, eiaAcc, eiaCount, eiaCalls, eiaFresh,
                   pagingVars, planVars, remoteVars>>

NextFacets == UpdateFacets

SpecFacets == InitFacets /\ [][NextFacets]_vars

----------------------------------------------------------------------------
(* What a resumed sequence is measured against *)

\* Number of sub-queries of the plan.
PlanLen == Len(backend)

\* Page size of the sequence (every cursor of a sequence carries the same).
PageSize == pagination.pageSize

\* Every sub-query's fetch succeeds with at least one row.
Healthy ==
    \A j \in 1..PlanLen :
        backend[j].status = 200 /\ backend[j].body = "data" /\ backend[j].data # <<>>

\* The rows sub-query k has for the caller: its fetched rows, joined to the
\* counties.
Joined(k) ==
    LET resp == backend[k + 1]
    IN  SelectSeq([i \in 1..Len(resp.data) |->
                      [q |-> k, i |-> i - 1, county |-> resp.data[i]]],
                  LAMBDA r : r.county \in CountiesGdf)

\* All rows of the plan, in plan order.
Expected == Concat([j \in 1..PlanLen |-> Joined(j - 1)])

TotalRows == Len(Expected)

\* The terminal result: an empty page and no next cursor.
Terminal == last.status = "ok" /\ last.rows = <<>> /\ last.next = <<>>

\* Rows of sub-query k returned so far.
ReturnedOf(k) == Len(SelectSeq(acc, LAMBDA r : r.q = k))

LastRow == last.rows[Len(last.rows)]

Row(k, i) == [q |-> k, i |-> i, county |-> "c1"]

----------------------------------------------------------------------------
(* Claims *)

\* C1: in a resumed sequence from the fresh cursor the concatenated pages are
\* the rows of all sub-queries in plan order: what has been returned so far is
\* always a prefix of them, and an empty page comes only once all of them
\* have been returned.
C1_Conservation ==
    (fromFresh /\ Healthy /\ last.status = "ok") =>
        /\ IsPrefix(acc, Expected)
        /\ (last.rows = <<>> => acc = Expected)

\* C2: a resumed sequence from the fresh cursor over a plan of N sub-queries
\* with totalRows rows has reached the terminal result once
\* ceil(totalRows / P) + N calls have been made.
CallBound == ((TotalRows + PageSize - 1) \div PageSize) + PlanLen

C2_CallBound ==
    (fromFresh /\ Healthy /\ TotalRows >= 1 /\ calls >= CallBound) => Terminal

\* C3: when a call fills the page while rows of sub-query k are unreturned,
\* the next cursor is (offset = rows of k returned so far, resourceIndex = k);
\* and for sub-query sizes [3,5,2,0,1,4] and page size 4 the first call returns
\* the 3 rows of sub-query 0, the first row of sub-query 1 and the cursor
\* (offset 1, pageSize 4, resourceIndex 1).
C3_FullPageCursor ==
    /\ (fromFresh /\ Healthy /\ last.status = "ok" /\ Len(last.rows) = PageSize) =>
          (ReturnedOf(LastRow.q) < Len(Joined(LastRow.q)) =>
              last.next = <<Cursor(ReturnedOf(LastRow.q), PageSize, LastRow.q)>>)
    /\ (backend = ExampleBackend /\ last.in = ExampleCursor /\ last.status # "none") =>
          /\ last.rows = <<Row(0, 0), Row(0, 1), Row(0, 2), Row(1, 0)>>
          /\ last.next = <<Cursor(1, 4, 1)>>

\* C4: the cursor's offset applies to the starting sub-query only: of every
\* later sub-query a call consumes, the page holds the rows from the first
\* one on.
C4_OffsetOnlyAtStart ==
    (Healthy /\ last.status = "ok") =>
        \A k \in (last.in.resourceIndex + 1)..(PlanLen - 1) :
            LET mine == SelectSeq(last.rows, LAMBDA r : r.q = k)
                before == Len(SelectSeq(last.rows, LAMBDA r : r.q < k))
            IN  /\ IsPrefix(mine, Joined(k))
                /\ ((\E j \in 1..Len(last.fetched) : last.fetched[j] = k)
                        /\ Joined(k) # <<>>
                        /\ before < last.in.pageSize)
                      => mine # <<>>

\* C5: when a call ends having returned the last row of sub-query k, the
\* next cursor is (offset 0, resourceIndex k + 1); after the last sub-query
\* that is resourceIndex = len(plan).
C5_ExhaustedAdvances ==
    (Healthy /\ last.status = "ok" /\ last.rows # <<>>) =>
        LET k == LastRow.q
        IN  (/\ LastRow = Joined(k)[Len(Joined(k))]
             /\ (k = PlanLen - 1 \/ Len(last.rows) = last.in.pageSize))
              => last.next = <<Cursor(0, last.in.pageSize, k + 1)>>

\* C6: every cursor returned in a resumed sequence from the fresh cursor has
\* offset < number of rows of plan[resourceIndex] when resourceIndex < len(plan).
C6_OffsetInRange ==
    (fromFresh /\ Healthy /\ last.status = "ok" /\ last.next # <<>>) =>
        (last.next[1].resourceIndex < PlanLen =>
            last.next[1].offset < Len(Joined(last.next[1].resourceIndex)))

\* C7: a call whose cursor has resourceIndex >= len(query_list) returns an
\* empty page and the empty next cursor, fetches nothing and raises nothing.
C7_EndOfPlan ==
    (last.status # "none" /\ last.in.resourceIndex >= PlanLen) =>
        /\ last.status = "ok"
        /\ last.rows = <<>>
        /\ last.next = <<>>
        /\ last.fetched = <<>>
        /\ last.asked = <<>>

\* A call past the end of a plan that has sub-queries.
C7_Witness ==
    /\ last.status = "ok"
    /\ PlanLen >= 1
    /\ last.in.resourceIndex >= PlanLen
    /\ last.next = <<>>

\* C8: a returned page holds at most pageSize rows, for any cursor.
C8_PageWithinPageSize ==
    last.status = "ok" => Len(last.rows) <= last.in.pageSize

\* A call from a non-zero offset that fetched two sub-queries and filled the
\* page.
C8_Witness ==
    /\ last.status = "ok"
    /\ last.in.offset > 0
    /\ Len(last.fetched) >= 2
    /\ Len(last.rows) = last.in.pageSize

----------------------------------------------------------------------------
(* Claims about the plan *)

\* The units the plan of the request runs over, in order, and its years.
PlanUnits ==
    IF planOut.provider = "nass"
    THEN SelectSeq(StatesDf, LAMBDA r : r.STATEFP \in GeomOf(planIn).states)
    ELSE planOut.counties_gdf

PlanYears ==
    YearsRange(planIn, IF planOut.provider = "nass" THEN <<DefaultYear>>
                       ELSE RemoteDefaultYears)

\* The identifying fields of a unit, in a table row and in a plan entry.
UnitId(row) ==
    IF planOut.provider = "nass" THEN <<row.STATEFP>>
    ELSE <<row.county_name, row.state_alpha>>

UnitOf(entry) ==
    IF planOut.provider = "nass" THEN <<entry.state_fips_code>>
    ELSE <<entry.county_name, entry.state_alpha>>

\* The filter names none of the identifying fields of a unit.
FilterKeepsUnitFields ==
    DOMAIN planIn.filter \cap {"state_fips_code", "county_name", "state_alpha"} = {}

\* C9: the plan create_query_list returns never holds two entries with the
\* same (geographic unit, year) pair (stated of NASSQuickStats, whose plan
\* does not depend on the columns of the counties table).
C9_NoDuplicateUnitYear ==
    (planOut.status = "ok" /\ planOut.provider = "nass" /\ FilterKeepsUnitFields) =>
        \A a, b \in 1..Len(planOut.query_list) :
            a < b =>
                \/ UnitOf(planOut.query_list[a]) # UnitOf(planOut.query_list[b])
                \/ planOut.query_list[a].year # planOut.query_list[b].year

\* C10: the plan is the ordered cross-product of units and years: U * Y
\* entries, the entry at index i * Y + j carrying unit i and year y_j (stated
\* of NASSQuickStats, as C9).
C10_CrossProduct ==
    (planOut.status = "ok" /\ planOut.provider = "nass" /\ FilterKeepsUnitFields) =>
        /\ Len(planOut.query_list) = Len(PlanUnits) * Len(PlanYears)
        /\ \A i \in 0..(Len(PlanUnits) - 1), j \in 0..(Len(PlanYears) - 1) :
              LET entry == planOut.query_list[i * Len(PlanYears) + j + 1]
              IN  /\ UnitOf(entry) = UnitId(PlanUnits[i + 1])
                  /\ entry.year = PlanYears[j + 1]

----------------------------------------------------------------------------
(* Claims about failures, filters and shared state *)

\* C11: when the fetch of a sub-query gets a non-success HTTP response, the
\* search call fails: it does not return a page, and no cursor past the
\* failed sub-query (stated of the remote provider's make_request).
C11_FailurePropagates ==
    \A i \in Slots :
        (/\ reqs[i].pc = "done"
         /\ reqs[i].out.resp # <<>>
         /\ reqs[i].out.resp[1].status # 200)
            => reqs[i].out.status = "error"

\* The states the request's geometry intersects, by postal code.
SpatialStates == {StatesIntersects(GeomOf(planIn))[j].STUSPS :
                     j \in 1..Len(StatesIntersects(GeomOf(planIn)))}

\* C12: when the filter names a state (state_alpha) that is not among the
\* states the geometry intersects, the plan is empty (stated of
\* NASSQuickStats.create_query_list).
C12_DisjointFilterEmptyPlan ==
    (/\ planOut.status = "ok"
     /\ planOut.provider = "nass"
     /\ "state_alpha" \in DOMAIN planIn.filter
     /\ planIn.filter.state_alpha \notin SpatialStates)
        => planOut.query_list = <<>>

\* C18: a filter key that is not a declared queryable field is dropped: no
\* sub-query of the plan carries the key with the filter's value (stated of
\* NASSQuickStats.create_query_list).
C18_UnsupportedKeysDropped ==
    (planOut.status = "ok" /\ planOut.provider = "nass") =>
        \A k \in DOMAIN planIn.filter \ NassQueryables :
            \A j \in 1..Len(planOut.query_list) :
                k \in DOMAIN planOut.query_list[j]
                    => planOut.query_list[j][k] # planIn.filter[k]

\* C19: every call returns with the cache what it returns without it: the
\* same outcome, page and next cursor.
C19_CacheTransparent ==
    last.status # "none" =>
        /\ last.status = uncached.status
        /\ last.rows = uncached.rows
        /\ last.next = uncached.next

\* The resource index a search of the remote provider starts from.
ResourceIndexOf(i) ==
    IF reqs[i].token # <<>> THEN reqs[i].token[1].resourceIndex ELSE 0

\* The searches differ in their spatial or their time filter.
DifferentFilters ==
    \E i, j \in Slots :
        \/ reqs[i].kwargs.bbox # reqs[j].kwargs.bbox
        \/ reqs[i].kwargs.datetime # reqs[j].kwargs.datetime

\* C20: of two searches with different spatial or time filters, each one
\* that goes to the API sends the sub-query its own plan (the list its own
\* create_query_list returned) holds at its resource index, and sends
\* nothing when its own plan ends before that index, however the two are
\* interleaved.
C20_OwnPlan ==
    \A i \in Slots :
        (/\ DifferentFilters
         /\ reqs[i].pc = "done"
         /\ reqs[i].plan # <<>>
         /\ ~reqs[i].out.hit) =>
            reqs[i].out.asked =
                IF ResourceIndexOf(i) >= Len(reqs[i].plan[1]) THEN <<>>
                ELSE <<reqs[i].plan[1][ResourceIndexOf(i) + 1]>>

----------------------------------------------------------------------------
(* Claims about the EIA searches *)

\* The traversal from the first page has reached the terminal page.
EiaTraversed ==
    eiaFresh /\ eiaLast.kind = "pair" /\ eiaLast.rows = <<>> /\ eiaLast.next = <<>>

\* C13: a search with count_only set never returns a (page, pagination)
\* pair, and the integer it returns is the number of rows of the full
\* traversal of the same request.
C13_CountOnly ==
    /\ eiaCount.kind # "pair"
    /\ (eiaCount.kind = "int" /\ EiaTraversed) => eiaCount.value = Len(eiaAcc)

\* C14: a search whose bbox has a number of coordinates other than 4 fails
\* with the ValueError of the bounding-box check and sends no request (stated
\* of EIAGenerators.search).
C14_BadBBoxRejected ==
    (/\ eiaReq.provider = "generators"
     /\ eiaReq.bbox # <<>>
     /\ Len(eiaReq.bbox) # 4
     /\ eiaLast.kind # "none")
        => /\ eiaLast.kind = "error"
           /\ eiaLast.error = "ValueError"
           /\ eiaLast.sent = <<>>

\* C15: a search whose offset is at or beyond the total of the API (which
\* answers with no rows and no error payload) returns an empty page and the
\* empty next pagination, and raises nothing.
C15_ExhaustedIsEmptyPage ==
    (/\ eiaLast.kind # "none"
     /\ eiaLast.sent # <<>>
     /\ ~eiaBackend.error
     /\ eiaLast.sent[1].offset >= eiaBackend.total)
        => /\ eiaLast.kind = "pair"
           /\ eiaLast.rows = <<>>
           /\ eiaLast.next = <<>>

\* The sorted rows the API holds for the request.
EiaRows == [j \in 1..eiaBackend.total |-> j]

\* C16: a search with offset o that returns n >= 1 rows gives the next token
\* offset o + n; the pages of a sequence from the fresh pagination are
\* consecutive slices of the API's rows: together always a prefix of them,
\* and all of them once the terminal page is reached.
C16_ConsecutivePages ==
    /\ (eiaLast.kind = "pair" /\ eiaLast.rows # <<>>) =>
          /\ eiaLast.next # <<>>
          /\ eiaLast.next[1].offset = eiaLast.sent[1].offset + Len(eiaLast.rows)
          /\ eiaLast.rows = Slice(EiaRows, eiaLast.sent[1].offset,
                                  eiaLast.sent[1].offset + Len(eiaLast.rows))
    /\ eiaFresh => IsPrefix(eiaAcc, EiaRows)
    /\ (EiaTraversed /\ eiaLast.sent # <<>>) => eiaAcc = EiaRows

\* The second page of a sequence over the power provider, and the end of a
\* sequence of several pages over the generators provider.
C16_Witness ==
    \/ /\ eiaReq.provider = "power"
       /\ eiaFresh
       /\ eiaCalls >= 2
       /\ eiaLast.kind = "pair"
       /\ eiaLast.rows # <<>>
       /\ eiaLast.sent[1].offset > 0
    \/ /\ eiaReq.provider = "generators"
       /\ EiaTraversed
       /\ eiaCalls >= 3
       /\ Len(eiaAcc) >= 2

----------------------------------------------------------------------------
(* Claims about update_facets *)

\* The queryable fields the provider of the request declares.
DeclaredQueryables ==
    IF eiaReq.provider = "generators" THEN GeneratorsQueryables ELSE PowerQueryables

\* The positions of the commas of v, with 0 before and Len(v) + 1 behind.
Cuts(v) == {0, Len(v) + 1} \cup {j \in 1..Len(v) : v[j] = ","}

\* The part of v between two neighbouring cuts a < b, without the blanks at
\* its ends.
Trimmed(v, a, b) ==
    LET solid == {j \in (a + 1)..(b - 1) : v[j] \notin Whitespace}
    IN  IF solid = {} THEN <<>>
        ELSE SubSeq(v, CHOOSE j \in solid : \A l \in solid : j <= l,
                       CHOOSE j \in solid : \A l \in solid : j >= l)

\* parts is the list of the trimmed comma-separated parts of v, in order.
IsSplitTrim(v, parts) ==
    /\ Len(parts) = Cardinality(Cuts(v)) - 1
    /\ \A a, b \in Cuts(v) :
          (a < b /\ ~(\E c \in Cuts(v) : a < c /\ c < b)) =>
              parts[Cardinality({c \in Cuts(v) : c <= a})] = Trimmed(v, a, b)

----------------------------------------------------------------------------
(* NASSQuickStats.search: the plan of the request, then one page of it *)

\* What the API answers to a sub-query of a search.
SearchResponses == {Ok(Rep(MaxRows, "c1")), ServerError}

\* The requests of the searches: the geometry comes as bbox or as intersects.
SearchRequests ==
    [bbox : {<<>>} \cup {<<g>> : g \in Geoms}, intersects : {<<>>},
     datetime : {<<>>} \cup (Years \X Years), filter : Filters,
     extra_params : {DefaultExtraParams}]
        \cup
    [bbox : {<<>>}, intersects : {<<g>> : g \in Geoms},
     datetime : {<<>>} \cup (Years \X Years), filter : Filters,
     extra_params : {DefaultExtraParams}]

\* Pagination(pagination, limit): the cursor of the token the caller sent, or
\* the fresh cursor of the limit.
SearchCursors ==
    {Cursor(o, ps, r) : o \in 0..1, ps \in 1..MaxPageSize, r \in 0..1}

\* The outcome of search once make_request has returned res: the merge with
\* the frame of columns geometry and id that get_counties_from_geometry
\* returns for no county is a KeyError at the first fetch.
SearchOutcome(p, plan, b, res) ==
    [plan |-> plan, backend |-> b,
     out |-> IF res.fetched # <<>> /\ plan.counties_gdf = <<>>
             \* pd.merge(df, counties_gdf, right_on=["STATEFP", "COUNTYFP"])
             THEN [in |-> p, status |-> "error", rows |-> <<>>, next |-> <<>>,
                   fetched |-> <<res.fetched[1]>>, asked |-> <<res.fetched[1]>>]
             ELSE [in |-> res.in, status |-> res.status, rows |-> res.rows,
                   next |-> res.next, fetched |-> res.fetched,
                   asked |-> res.asked]]

\* make_request over the plan, against the backend b.
SearchPage(p, plan, b) == SearchOutcome(p, plan, b, make_request(p, b, <<>>))

\* The distinct parameter dicts of a plan, and the answers of the API to the
\* entries of the plan.
PlanDicts(query_list) == {query_list[k] : k \in 1..Len(query_list)}

PlanBackend(query_list, answers) ==
    [k \in 1..Len(query_list) |-> answers[query_list[k]]]

SearchPlan(p, plan, answers) ==
    SearchPage(p, plan, PlanBackend(plan.query_list, answers))

\* search: create_query_list, then make_request over the plan with the
\* counties of the request.  answers gives the API's answer to each distinct
\* parameter dict of the plan.
nass_search(req, p, answers) == SearchPlan(p, NassCreateQueryListOf(req), answers)

InitSearch ==
    /\ planIn \in SearchRequests
    /\ planOut = NoPlan
    /\ planAgain = NoPlan
    /\ boundaries = LoadedBoundaries
    /\ selfCountiesGdf = <<>>
    /\ countiesHasAplha = FALSE
    /\ RemoteIdle
    /\ EiaIdle
    /\ backend = <<>>
    /\ cache = <<>>
    /\ wire = <<>>
    /\ pagination \in SearchCursors
    /\ last = NoCall(pagination)
    /\ uncached = NoCall(pagination)
    /\ acc = <<>>
    /\ calls = 0
    /\ fromFresh = (pagination = Fresh(pagination.pageSize))

\* What a search that came out as res leaves behind.
SearchDone(res) ==
    /\ planOut' = res.plan
    /\ backend' = res.backend
    /\ last' = res.out
    /\ acc' = res.out.rows

\* One search call of NASSQuickStats.
NassSearch ==
    /\ calls = 0
    /\ \E answers \in [PlanDicts(NassCreateQueryListOf(planIn).query_list)
                           -> SearchResponses] :
           SearchDone(nass_search(planIn, pagination, answers))
    /\ boundaries' = NassBoundariesAfter(boundaries, GeomOf(planIn))
    /\ calls' = 1
    /\ UNCHANGED <<planIn, planAgain, selfCountiesGdf, countiesHasAplha, cache,
                   pagination, fromFresh, uncached, wire, remoteVars, eiaVars>>

NextSearch == NassSearch

SpecSearch == InitSearch /\ [][NextSearch]_vars

----------------------------------------------------------------------------
(* Claims about the search of NASSQuickStats *)

\* The request's geometry intersects no state, or its datetime ends in a year
\* before the year it starts in.
NoUnitOrNoYear ==
    \/ StatesIntersects(GeomOf(planIn)) = <<>>
    \/ planIn.datetime # <<>> /\ planIn.datetime[2] < planIn.datetime[1]

\* C21: a NASSQuickStats search whose geometry intersects no state, or whose
\* datetime holds no year, has an empty plan and returns an empty page: it
\* does not raise and fetches nothing from the backend.
C21_EmptyPlanEmptyPage ==
    (calls = 1 /\ NoUnitOrNoYear) =>
        /\ planOut.status = "ok"
        /\ planOut.query_list = <<>>
        /\ last.status = "ok"
        /\ last.rows = <<>>
        /\ last.fetched = <<>>
        /\ last.asked = <<>>

\* A search over three states whose datetime runs backwards has been made.
C21_Witness ==
    /\ calls = 1
    /\ Len(StatesIntersects(GeomOf(planIn))) = Len(StatesDf)
    /\ planIn.datetime # <<>>
    /\ planIn.datetime[2] < planIn.datetime[1]
    /\ planOut.query_list = <<>>
    /\ last.status = "ok"

----------------------------------------------------------------------------
(* Claims about repeated planning *)

\* The position of a row in a table of distinct rows.
PositionIn(row, df) == CHOOSE j \in 1..Len(df) : df[j] = row

\* rows are rows of df in the order of df.
InLoadOrder(rows, df) ==
    /\ \A j \in 1..Len(rows) : \E l \in 1..Len(df) : df[l] = rows[j]
    /\ \A j, l \in 1..Len(rows) :
           j < l => PositionIn(rows[j], df) < PositionIn(rows[l], df)

\* The states of the plan, one per sub-query, as rows of the states table.
PlanStates(query_list) ==
    [j \in 1..Len(query_list) |->
        StatesDf[CHOOSE l \in 1..Len(StatesDf) :
                     StatesDf[l].STATEFP = query_list[j]["state_fips_code"]]]

----------------------------------------------------------------------------
(* Claims about the order of the fetches of one make_request call *)

\* The rows of the returned page that come from sub-queries before index k.
RowsBefore(k) == SelectSeq(last.rows, LAMBDA r : r.q < k)

\* C23: one NASSQuickStats.make_request call fetches the sub-queries
\* resourceIndex, resourceIndex + 1, ... of its input cursor in this order,
\* each at most once and none outside the plan; the backend is asked for a
\* part of them in the same order; and the last fetch is made while the page
\* holds fewer than pageSize rows.
C23_FetchesInOrder ==
    last.status # "none" =>
        /\ \A j \in 1..Len(last.fetched) :
               /\ last.fetched[j] = last.in.resourceIndex + (j - 1)
               /\ last.fetched[j] < Len(backend)
        /\ \A j \in 1..Len(last.asked) :
               /\ \E l \in 1..Len(last.fetched) : last.fetched[l] = last.asked[j]
               /\ \A l \in 1..Len(last.asked) :
                      j < l => last.asked[j] < last.asked[l]
        /\ (last.status = "ok" /\ last.fetched # <<>>) =>
               Len(RowsBefore(last.fetched[Len(last.fetched)])) < last.in.pageSize

\* A call has fetched the first two sub-queries of a longer plan, filled its
\* page with rows of both and left the rest of the plan alone.
C23_Witness ==
    /\ last.status = "ok"
    /\ last.fetched = <<0, 1>>
    /\ Len(backend) > 2
    /\ Len(last.rows) = last.in.pageSize
    /\ RowsBefore(1) # <<>>
    /\ RowsBefore(1) # last.rows

----------------------------------------------------------------------------
(* Claims about the boundary tables *)

\* C24: after every request of the planners and searches, states.df and
\* counties.df hold the rows, in the order and with the fields and the index,
\* that they held when they were loaded.
C24_BoundariesUnchanged == boundaries = LoadedBoundaries

\* The remote provider has planned twice over a geometry that meets a part
\* of the counties, stripping and re-indexing its frames each time.
C24_Witness ==
    /\ planOut.provider = "remote"
    /\ planOut.status = "ok"
    /\ planAgain.status = "ok"
    /\ Len(planOut.counties_gdf) = 1
    /\ Len(StatesIntersects(GeomOf(planIn))) = 2

----------------------------------------------------------------------------
(* The pagination token between two search calls *)

MaxField == 11      \* largest offset, page size and resource index of a token

\* str(n) of a non-negative int, as the f-string formats it: the decimal
\* digits, most significant first.
DigitChars == <<"0", "1", "2", "3", "4", "5", "6", "7", "8", "9">>

RECURSIVE Str(_)
Str(n) == IF n < 10 THEN <<DigitChars[n + 1]>>
          ELSE Str(n \div 10) \o <<DigitChars[(n % 10) + 1]>>

\* The token with the limit in the place of the resource index.
FreshTokenLimitLast(limit) == <<"0", "-", "0", "-">> \o Str(limit)

\* f"0-{limit}-0"
FreshToken(limit) == <<"0", "-">> \o Str(limit) \o <<"-", "0">>

\* The token of a cursor: offset, page size and resource index in decimal,
\* joined by "-", the shape of the literal tokens "0-10-0".
EncodeToken(c) ==
    Str(c.offset) \o <<"-">> \o Str(c.pageSize) \o <<"-">> \o Str(c.resourceIndex)

\* token.split("-")
RECURSIVE SplitDash(_)
SplitDash(t) ==
    LET dashes == {j \in 1..Len(t) : t[j] = "-"}
    IN  IF dashes = {} THEN <<t>>
        ELSE LET j == CHOOSE c \in dashes : \A d \in dashes : c <= d
             IN  <<SubSeq(t, 1, j - 1)>> \o SplitDash(SubSeq(t, j + 1, Len(t)))

\* int(s) of a string of decimal digits.
RECURSIVE ParseInt(_)
ParseInt(digits) ==
    IF digits = <<>> THEN 0
    ELSE 10 * ParseInt(SubSeq(digits, 1, Len(digits) - 1))
            + ((CHOOSE d \in 1..10 : DigitChars[d] = digits[Len(digits)]) - 1)

\* Pagination({"token": t}, limit).get_current(): the three fields of t.
DecodeToken(t) ==
    LET parts == SplitDash(t)
    IN  Cursor(ParseInt(parts[1]), ParseInt(parts[2]), ParseInt(parts[3]))

\* The cursors a call may compute.
TokenCursors ==
    {Cursor(o, ps, r) : o \in 0..MaxField, ps \in {1, DefaultLimit, MaxField},
                        r \in 0..MaxPlanLen}

InitToken ==
    /\ PlanIdle
    /\ RemoteIdle
    /\ EiaIdle
    /\ backend = <<>>
    /\ cache = <<>>
    /\ wire = <<>>
    /\ pagination = Fresh(DefaultLimit)
    /\ last = NoCall(pagination)
    /\ uncached = NoCall(pagination)
    /\ acc = <<>>
    /\ calls = 0
    /\ fromFresh = TRUE

\* NASSQuickStatsRemoteProvider.search without pagination: the token of the
\* limit is written out and made a Pagination.
RemoteFreshPagination ==
    /\ calls = 0
    /\ wire = <<>>
    /\ \E limit \in 1..MaxField :
          /\ last' = NoCall(Cursor(0, limit, 0))
          /\ pagination' = DecodeToken(FreshToken(limit))
    /\ calls' = 1
    /\ UNCHANGED <<backend, cache, acc, fromFresh, uncached, wire, planVars,
                   remoteVars, eiaVars>>

\* A search call has computed the cursor c and hands its token to the caller.
HandToken ==
    /\ calls < MaxCalls
    /\ wire = <<>>
    /\ \E c \in TokenCursors :
          /\ last' = NoCall(c)
          /\ pagination' = c
          /\ wire' = EncodeToken(c)
    /\ calls' = calls + 1
    /\ UNCHANGED <<backend, cache, acc, fromFresh, uncached, planVars, remoteVars,
                   eiaVars>>

\* The caller supplies the token to the next search call, which reads the
\* cursor from it.
SupplyToken ==
    /\ wire # <<>>
    /\ pagination' = DecodeToken(wire)
    /\ wire' = <<>>
    /\ UNCHANGED <<backend, cache, last, acc, calls, fromFresh, uncached, planVars,
                   remoteVars, eiaVars>>

NextToken == RemoteFreshPagination \/ HandToken \/ SupplyToken

SpecToken == InitToken /\ [][NextToken]_vars

----------------------------------------------------------------------------
(* Claims about the unit fields of the plan *)

\* C26: in the plan of either NASS provider, whatever the filter holds, the
\* sub-queries of the i-th unit carry that unit's identifying fields as the
\* boundary tables give them: state_fips_code (NASSQuickStats), county_name
\* and state_alpha (remote provider).
C26_UnitFieldsKept ==
    (planOut.status = "ok" /\ PlanYears # <<>>) =>
        \A k \in 1..Len(planOut.query_list) :
            UnitOf(planOut.query_list[k])
                = UnitId(PlanUnits[((k - 1) \div Len(PlanYears)) + 1])

----------------------------------------------------------------------------
(* Claims about the parameters the EIA searches send *)

\* C27: the parameters an EIAElectricity search sends for the frequency
\* "hourly" hold no facet "timezone", whatever the provider properties and
\* the filter.
C27_HourlyNoTimezone ==
    (/\ eiaReq # <<>>
     /\ eiaReq.provider = "power"
     /\ eiaLast.sent # <<>>
     /\ eiaLast.sent[1].frequency = "hourly") =>
        "timezone" \notin DOMAIN eiaLast.sent[1].facets

\* C28: the "length" an EIA search sends to the API is at most MAX_PAGE_SIZE
\* for every limit and every cursor, and is MAX_PAGE_SIZE for the limit 0 of
\* a search for a page without pagination.
C28_LengthWithinMaxPageSize ==
    (eiaReq # <<>> /\ eiaLast.sent # <<>>) =>
        /\ eiaLast.sent[1].length <= MAX_PAGE_SIZE
        /\ (eiaReq.limit = 0 /\ eiaLast.in = <<>>) =>
               eiaLast.sent[1].length = MAX_PAGE_SIZE

----------------------------------------------------------------------------
(* Claims about the calls of the remote provider *)

\* C29: a search of the remote provider whose resource index k lies within
\* its plan sends exactly the sub-query plan[k] and returns the cursor with
\* offset 0 and resource index k + 1 (so that resumed calls walk the plan
\* index by index).
C29_OneSubQueryPerCall ==
    \A i \in Slots :
        (/\ reqs[i].pc = "done"
         /\ reqs[i].plan # <<>>
         /\ ~reqs[i].out.hit
         /\ ResourceIndexOf(i) < Len(reqs[i].plan[1])) =>
            /\ reqs[i].out.status = "ok"
            /\ reqs[i].out.asked = <<reqs[i].plan[1][ResourceIndexOf(i) + 1]>>
            /\ reqs[i].out.next # <<>>
            /\ reqs[i].out.next[1].offset = 0
            /\ reqs[i].out.next[1].resourceIndex = ResourceIndexOf(i) + 1

----------------------------------------------------------------------------
(* Claims about the direction of the cursor *)

\* The cursor a is before the cursor b in the order of (resourceIndex, offset).
CursorBefore(a, b) ==
    \/ a.resourceIndex < b.resourceIndex
    \/ a.resourceIndex = b.resourceIndex /\ a.offset < b.offset

\* C30: the cursor NASSQuickStats.make_request returns is not before its
\* input cursor in the order of (resourceIndex, offset), and is after it when
\* the call returns at least one row.
C30_CursorNeverBackwards ==
    (last.status = "ok" /\ last.next # <<>>) =>
        /\ ~CursorBefore(last.next[1], last.in)
        /\ last.rows # <<>> => CursorBefore(last.in, last.next[1])

\* A call that began inside a sub-query has returned rows of it and of the
\* next one, with a cursor on the next one.
C30_Witness ==
    /\ last.status = "ok"
    /\ last.next # <<>>
    /\ last.in.offset > 0
    /\ Len(last.fetched) = 2
    /\ last.rows # <<>>
    /\ last.next[1].resourceIndex = last.in.resourceIndex + 1
    /\ CursorBefore(last.in, last.next[1])

====
